---- MODULE Spec2Model ----
(***************************************************************************)
(* Model of lib/stacks/key-stack.ts: the KeyStack constructor (shared      *)
(* encryption key, its resource policy, the published key-ARN parameter    *)
(* and the cross-account parameter-read role) and the                      *)
(* SsmSessionManagerSettings constructor (session-logging destinations,    *)
(* the agent policy document, role, instance profile, custom resource and  *)
(* the singleton handler log group).                                       *)
(*                                                                         *)
(* Template strings are modelled as string concatenation, optional         *)
(* (possibly undefined) properties as sequences of length 0 or 1, and      *)
(* deploy-time tokens (ARNs, refs) as strings derived from the construct   *)
(* path.                                                                   *)
(***************************************************************************)
EXTENDS Integers, Sequences, FiniteSets, TLC

VARIABLES
  keyStack,   \* the stack built by the KeyStack constructor: None before, Some(stack) after
  stack,      \* the stack SsmSessionManagerSettings constructs are built in: its partition,
              \* region and account, and its direct children in declaration order
  settings,   \* the SsmSessionManagerSettings constructs built so far, in order
  error       \* the message of the Error a constructor threw, '' while none was thrown

vars == <<keyStack, stack, settings, error>>

----------------------------------------------------------------------------
(* Bounds of the model *)

\* longest configured account list
MaxAccounts == 2
\* most SsmSessionManagerSettings constructs built in one stack
MaxBuilds == 2

----------------------------------------------------------------------------
(* JavaScript values *)

\* an optional property that is undefined
None == <<>>
\* an optional property holding v
Some(v) == <<v>>
IsDefined(o) == o # None
\* the value of a defined optional property
Val(o) == o[1]
\* !x for an optional string: undefined and '' are falsy
Falsy(o) == o = None \/ Val(o) = ""

Range(s) == {s[i] : i \in 1..Len(s)}

----------------------------------------------------------------------------
(* IAM principals and policy statements (aws_iam) *)

AccountPrincipal(accountId) == [kind |-> "Account", accountId |-> accountId]
ServicePrincipal(service) == [kind |-> "Service", service |-> service]
OrganizationPrincipal(organizationId) == [kind |-> "Organization", organizationId |-> organizationId]
\* new CompositePrincipal(...principals): the constructor throws when it is given no
\* principal; the Error it throws is modelled as a value of kind "Error"
CompositePrincipal(principals) ==
  IF principals = <<>>
  THEN [kind |-> "Error",
        message |-> "CompositePrincipals must be constructed with at least one Principal but none were passed."]
  ELSE [kind |-> "Composite", principals |-> principals]
AccountRootPrincipal == [kind |-> "AccountRoot"]

\* new PolicyStatement({sid, principals, actions, resources, conditions});
\* effect defaults to Allow, absent sid is '', absent lists are empty
PolicyStatement(sid, principals, actions, resources, conditions) ==
  [sid |-> sid, effect |-> "Allow", principals |-> principals, actions |-> actions,
   resources |-> resources, conditions |-> conditions]

\* one entry of a statement's conditions map
Condition(operator, key, values) == [operator |-> operator, key |-> key, values |-> values]

----------------------------------------------------------------------------
(* KeyStack *)

CROSS_ACCOUNT_ACCESS_ROLE_NAME == "AWSAccelerator-CrossAccount-SsmParameter-Role"
ACCELERATOR_KEY_ARN_PARAMETER_NAME == "/accelerator/kms/key-arn"

\* the id attribute of the Organization construct, a deploy-time value
OrganizationRef == "${Organization.id}"

\* a slip: the branches of the conditional are swapped
organizationId_Swapped(props) == IF props.organizationEnable THEN "" ELSE OrganizationRef

\* const organizationId = props.organizationConfig.enable ? new Organization(...).id : ''
organizationId(props) == IF props.organizationEnable THEN OrganizationRef ELSE ""

\* `arn:${partition}:iam::*:role/AWSAccelerator-*`
AcceleratorRoleArnPattern(props) == "arn:" \o props.partition \o ":iam::*:role/AWSAccelerator-*"

\* the ArnLike condition on aws:PrincipalARN used by the key policy and the role
AcceleratorRoleCondition(props) ==
  <<Condition("ArnLike", "aws:PrincipalARN", <<AcceleratorRoleArnPattern(props)>>)>>

\* props?.accountsConfig?.accountIds?.map(item => new AccountPrincipal(item.accountId));
\* undefined when the list is undefined, which leaves the statement without principals
AcceleratorRolePrincipals(props) ==
  IF IsDefined(props.accountIds)
  THEN [i \in 1..Len(Val(props.accountIds)) |-> AccountPrincipal(Val(props.accountIds)[i])]
  ELSE <<>>

\* the statement added under if (props.organizationConfig.enable)
AcceleratorRoleStatements(props) ==
  IF props.organizationEnable
  THEN <<PolicyStatement("Allow Accelerator Role to use the encryption key",
                         AcceleratorRolePrincipals(props),
                         <<"kms:Encrypt", "kms:Decrypt", "kms:ReEncrypt*", "kms:GenerateDataKey*", "kms:DescribeKey">>,
                         <<"*">>,
                         AcceleratorRoleCondition(props))>>
  ELSE <<>>

\* the statement for the logging service principal
CloudwatchLogsStatement ==
  PolicyStatement("Allow Cloudwatch logs to use the encryption key",
                  <<ServicePrincipal("logs.amazonaws.com.cn")>>,
                  <<"kms:Encrypt*", "kms:Decrypt*", "kms:ReEncrypt*", "kms:GenerateDataKey*", "kms:Describe*">>,
                  <<"*">>,
                  <<>>)

\* a copy-paste slip: Macie gated by the GuardDuty flag
allowedServicePrincipals_MacieByGuardduty(props) ==
  <<[name |-> "Sns", principal |-> "sns.amazonaws.com"],
    [name |-> "Lambda", principal |-> "lambda.amazonaws.com"],
    [name |-> "Cloudwatch", principal |-> "cloudwatch.amazonaws.com"]>>
  \o (IF props.guarddutyEnable THEN <<[name |-> "Macie", principal |-> "macie.amazonaws.com"]>> ELSE <<>>)
  \o (IF props.guarddutyEnable THEN <<[name |-> "Guardduty", principal |-> "guardduty.amazonaws.com"]>> ELSE <<>>)

\* the allowedServicePrincipals list after the two conditional pushes
allowedServicePrincipals(props) ==
  <<[name |-> "Sns", principal |-> "sns.amazonaws.com"],
    [name |-> "Lambda", principal |-> "lambda.amazonaws.com"],
    [name |-> "Cloudwatch", principal |-> "cloudwatch.amazonaws.com"]>>
  \o (IF props.macieEnable THEN <<[name |-> "Macie", principal |-> "macie.amazonaws.com"]>> ELSE <<>>)
  \o (IF props.guarddutyEnable THEN <<[name |-> "Guardduty", principal |-> "guardduty.amazonaws.com"]>> ELSE <<>>)

\* allowedServicePrincipals.forEach(item => key.addToResourcePolicy(...))
ServiceStatements(props) ==
  [i \in 1..Len(allowedServicePrincipals(props)) |->
     PolicyStatement("Allow " \o allowedServicePrincipals(props)[i].name \o " service to use the encryption key",
                     <<ServicePrincipal(allowedServicePrincipals(props)[i].principal)>>,
                     <<"kms:Encrypt", "kms:Decrypt", "kms:ReEncrypt*", "kms:GenerateDataKey*", "kms:DescribeKey">>,
                     <<"*">>,
                     <<>>)]

\* the key's resource policy, in the order of the addToResourcePolicy calls
KeyResourcePolicy(props) ==
  AcceleratorRoleStatements(props) \o <<CloudwatchLogsStatement>> \o ServiceStatements(props)

\* key.keyArn of the AcceleratorKey construct, a deploy-time value
AcceleratorKeyArn == "${AcceleratorKey.Arn}"

\* new StringParameter(this, 'AcceleratorKmsArnParameter', {...})
AcceleratorKmsArnParameter ==
  [parameterName |-> "/accelerator/kms/key-arn", stringValue |-> AcceleratorKeyArn]

\* the accountPrincipals array filled by the for loop over accountIds ?? []
accountPrincipals(props) ==
  IF IsDefined(props.accountIds)
  THEN [i \in 1..Len(Val(props.accountIds)) |-> AccountPrincipal(Val(props.accountIds)[i])]
  ELSE <<>>

\* a slip: || in place of &&
assumedBy_Or(props) ==
  IF props.partition = "aws-cn" \/ IsDefined(props.accountIds)
  THEN CompositePrincipal(accountPrincipals(props))
  ELSE OrganizationPrincipal(organizationId(props))

\* the role's assumedBy expression: a principal, or the Error thrown while building it
assumedBy(props) ==
  IF props.partition = "aws-cn" /\ IsDefined(props.accountIds)
  THEN CompositePrincipal(accountPrincipals(props))
  ELSE OrganizationPrincipal(organizationId(props))

\* the statements of the role's inline policy 'default'
CrossAccountRoleStatements(props) ==
  <<PolicyStatement("", <<>>,
                    <<"ssm:GetParameters", "ssm:GetParameter">>,
                    <<"arn:" \o props.partition \o ":ssm:*:" \o props.account \o ":parameter/accelerator/kms/key-arn">>,
                    AcceleratorRoleCondition(props)),
    PolicyStatement("", <<>>,
                    <<"ssm:DescribeParameters">>,
                    <<"*">>,
                    AcceleratorRoleCondition(props))>>

\* a slip: the role is created in the home region whatever the organization mode
CreatesCrossAccountRole_RegionOnly(props) == props.region = props.homeRegion

\* cdk.Stack.of(this).region === props.globalConfig.homeRegion && props.organizationConfig.enable
CreatesCrossAccountRole(props) == props.region = props.homeRegion /\ props.organizationEnable

\* the Error thrown while the arguments of new Role(...) are evaluated, '' when none is
KeyStackError(props) ==
  IF CreatesCrossAccountRole(props) /\ assumedBy(props).kind = "Error"
  THEN assumedBy(props).message
  ELSE ""

\* new Role(this, 'CrossAccountAcceleratorSsmParamAccessRole', {...}), when created: the
\* role is not declared when evaluating its assumedBy threw
CrossAccountRole(props) ==
  IF CreatesCrossAccountRole(props) /\ KeyStackError(props) = ""
  THEN Some([roleName |-> CROSS_ACCOUNT_ACCESS_ROLE_NAME,
             assumedBy |-> assumedBy(props),
             inlinePolicies |-> CrossAccountRoleStatements(props)])
  ELSE None

\* the ids of the constructs declared under the stack, in declaration order
KeyStackChildren(props) ==
  (IF props.organizationEnable THEN <<"Organization">> ELSE <<>>)
  \o <<"AcceleratorKey", "AcceleratorKmsArnParameter">>
  \o (IF CrossAccountRole(props) # None THEN <<"CrossAccountAcceleratorSsmParamAccessRole">> ELSE <<>>)

\* the stack as the KeyStack constructor leaves it, by return or by a throw
KeyStack(props) ==
  [props |-> props,
   error |-> KeyStackError(props),
   organizationId |-> organizationId(props),
   keyPolicy |-> KeyResourcePolicy(props),
   parameter |-> AcceleratorKmsArnParameter,
   role |-> CrossAccountRole(props),
   children |-> KeyStackChildren(props)]

(* inputs of the KeyStack constructor *)
Regions == {"cn-north-1", "cn-northwest-1"}
Partitions == {"aws", "aws-cn"}
AccountId(i) == "10000000000" \o ToString(i)
AccountIdLists == {None} \cup {Some([i \in 1..k |-> AccountId(i)]) : k \in 0..MaxAccounts}

KeyStackProps ==
  [organizationEnable : BOOLEAN, macieEnable : BOOLEAN, guarddutyEnable : BOOLEAN,
   region : Regions, homeRegion : Regions, partition : Partitions,
   account : {AccountId(1)}, accountIds : AccountIdLists]

----------------------------------------------------------------------------
(* SsmSessionManagerSettings *)

\* a construct declared under a scope: its id, resource type and physical name
Construct(id, type, name) == [id |-> id, type |-> type, name |-> name]

\* the statement the agent policy document is created with
BaseStatements ==
  <<PolicyStatement("", <<>>,
                    <<"ssmmessages:CreateControlChannel", "ssmmessages:CreateDataChannel",
                      "ssmmessages:OpenControlChannel", "ssmmessages:OpenDataChannel",
                      "ssm:UpdateInstanceInformation">>,
                    <<"*">>,
                    <<>>)>>

\* the two statements added to the resource policy of either session-manager key
SessionManagerKeyPolicy(env) ==
  <<PolicyStatement("Enable IAM User Permissions", <<AccountRootPrincipal>>, <<"kms:*">>, <<"*">>, <<>>),
    PolicyStatement("Allow Cloud Watch Logs access",
                    <<ServicePrincipal("logs." \o env.region \o ".amazonaws.com.cn")>>,
                    <<"kms:Encrypt*", "kms:Decrypt*", "kms:ReEncrypt*", "kms:GenerateDataKey*", "kms:Describe*">>,
                    <<"*">>,
                    <<Condition("ArnLike", "kms:EncryptionContext:aws:logs:arn",
                                <<"arn:" \o env.partition \o ":logs:" \o env.region \o ":" \o env.account \o ":*">>)>>)>>

\* const logGroupName = 'aws-accelerator-session-manager-logs'
logGroupName == "aws-accelerator-session-manager-logs"

\* the key and the log group declared under if (props.sendToCloudWatchLogs)
CloudWatchResources(props) ==
  IF props.sendToCloudWatchLogs
  THEN <<Construct("SessionManagerLogsCmk", "AWS::KMS::Key", "accelerator/session-manager-logging/cloud-watch-logs"),
         [id |-> "sessionManagerLogGroup", type |-> "AWS::Logs::LogGroup", name |-> logGroupName,
          retention |-> "TEN_YEARS", encryptionKey |-> "SessionManagerLogsCmk"]>>
  ELSE <<>>

\* the resource policy of the logs key
LogsCmkPolicy(env, props) ==
  IF props.sendToCloudWatchLogs THEN SessionManagerKeyPolicy(env) ELSE <<>>

\* let sessionManagerLogGroupName = ''; set in the CloudWatch branch to
\* sessionManagerLogGroup.logGroupName, a deploy-time reference to the log group
\* declared at id/sessionManagerLogGroup
sessionManagerLogGroupName(id, props) ==
  IF props.sendToCloudWatchLogs THEN "${" \o id \o "/sessionManagerLogGroup.Ref}" ELSE ""

\* a slip: the log-stream statement is scoped to every log group as well
CloudWatchStatements_AllLogGroups(env, props) ==
  IF props.sendToCloudWatchLogs
  THEN <<PolicyStatement("", <<>>,
                         <<"logs:DescribeLogGroups">>,
                         <<"arn:" \o env.partition \o ":logs:" \o env.region \o ":" \o env.account \o ":log-group:*">>,
                         <<>>),
         PolicyStatement("", <<>>,
                         <<"logs:CreateLogStream", "logs:PutLogEvents", "logs:DescribeLogStreams">>,
                         <<"arn:" \o env.partition \o ":logs:" \o env.region \o ":" \o env.account \o ":log-group:*">>,
                         <<>>)>>
  ELSE <<>>

\* the statements added to the agent policy document for the CloudWatch destination
CloudWatchStatements(env, props) ==
  IF props.sendToCloudWatchLogs
  THEN <<PolicyStatement("", <<>>,
                         <<"logs:DescribeLogGroups">>,
                         <<"arn:" \o env.partition \o ":logs:" \o env.region \o ":" \o env.account \o ":log-group:*">>,
                         <<>>),
         PolicyStatement("", <<>>,
                         <<"logs:CreateLogStream", "logs:PutLogEvents", "logs:DescribeLogStreams">>,
                         <<"arn:" \o env.partition \o ":logs:" \o env.region \o ":" \o env.account
                             \o ":log-group:" \o logGroupName \o ":*">>,
                         <<>>)>>
  ELSE <<>>

\* a slip: the two properties are tested against undefined only, so '' passes
S3ValidationFails_UndefinedOnly(props) ==
  props.sendToS3 /\ (props.s3BucketKeyArn = None \/ props.s3BucketName = None)

\* if (props.sendToS3) { if (!props.s3BucketKeyArn || !props.s3BucketName) throw ... }
S3ValidationFails(props) ==
  props.sendToS3 /\ (Falsy(props.s3BucketKeyArn) \/ Falsy(props.s3BucketName))

\* props.s3KeyPrefix ? props.s3KeyPrefix + '/*' : '*'
S3ObjectPattern(props) ==
  IF Falsy(props.s3KeyPrefix) THEN "*" ELSE Val(props.s3KeyPrefix) \o "/*"

\* a slip: the bucket-key statement is added only when CloudWatch is off
S3Statements_KeyOnlyWithoutCloudWatch(env, props) ==
  IF props.sendToS3 /\ ~S3ValidationFails(props)
  THEN <<PolicyStatement("", <<>>,
                         <<"s3:PutObject", "s3:PutObjectAcl">>,
                         <<"arn:" \o env.partition \o ":s3:::" \o Val(props.s3BucketName) \o "/" \o S3ObjectPattern(props)>>,
                         <<>>),
         PolicyStatement("", <<>>,
                         <<"s3:GetEncryptionConfiguration">>,
                         <<"arn:" \o env.partition \o ":s3:::" \o Val(props.s3BucketName)>>,
                         <<>>)>>
       \o (IF props.sendToCloudWatchLogs THEN <<>>
           ELSE <<PolicyStatement("", <<>>,
                                  <<"kms:Decrypt", "kms:GenerateDataKey">>,
                                  <<Val(props.s3BucketKeyArn)>>,
                                  <<>>)>>)
  ELSE <<>>

\* the statements added to the agent policy document for the S3 destination
S3Statements(env, props) ==
  IF props.sendToS3 /\ ~S3ValidationFails(props)
  THEN <<PolicyStatement("", <<>>,
                         <<"s3:PutObject", "s3:PutObjectAcl">>,
                         <<"arn:" \o env.partition \o ":s3:::" \o Val(props.s3BucketName) \o "/" \o S3ObjectPattern(props)>>,
                         <<>>),
         PolicyStatement("", <<>>,
                         <<"s3:GetEncryptionConfiguration">>,
                         <<"arn:" \o env.partition \o ":s3:::" \o Val(props.s3BucketName)>>,
                         <<>>),
         PolicyStatement("", <<>>,
                         <<"kms:Decrypt", "kms:GenerateDataKey">>,
                         <<Val(props.s3BucketKeyArn)>>,
                         <<>>)>>
  ELSE <<>>

\* sessionManagerSessionCmk.keyArn, a deploy-time value of the construct at id/SessionManagerSessionCmk
SessionCmkArn(id) == "${" \o id \o "/SessionManagerSessionCmk.Arn}"
\* sessionManagerSessionCmk.keyId
SessionCmkId(id) == "${" \o id \o "/SessionManagerSessionCmk.Ref}"

\* a slip: the session key is created only when a destination is enabled
SessionCmkResources_OnlyWithDestination(props) ==
  IF props.sendToS3 \/ props.sendToCloudWatchLogs
  THEN <<Construct("SessionManagerSessionCmk", "AWS::KMS::Key", "accelerator/session-manager-logging/session")>>
  ELSE <<>>

\* new Key(this, 'SessionManagerSessionCmk', {...}), reached when the validation passed
SessionCmkResources(props) ==
  <<Construct("SessionManagerSessionCmk", "AWS::KMS::Key", "accelerator/session-manager-logging/session")>>

\* the statement added to the agent policy document for the session key
SessionCmkStatements(id) ==
  <<PolicyStatement("", <<>>, <<"kms:Decrypt">>, <<SessionCmkArn(id)>>, <<>>)>>

\* sessionManagerEC2PolicyDocument when the constructor ends: by return or by the throw
EC2PolicyDocument(env, id, props) ==
  IF S3ValidationFails(props)
  THEN BaseStatements \o CloudWatchStatements(env, props)
  ELSE BaseStatements \o CloudWatchStatements(env, props) \o S3Statements(env, props)
         \o SessionCmkStatements(id)

\* the managed policies, the role and the instance profile declared after the session key
IamResources(env) ==
  <<Construct("SessionManagerEC2Policy", "AWS::IAM::ManagedPolicy", "SessionManagerLogging-" \o env.region),
    Construct("SessionManagerEC2Role", "AWS::IAM::Role", "SessionManagerEC2Role-" \o env.region),
    Construct("SessionManagerEC2InstanceProfile", "AWS::IAM::InstanceProfile", "SessionManagerEc2Role-" \o env.region),
    Construct("SessionManagerUserKMSPolicy", "AWS::IAM::ManagedPolicy", "SessionManagerUserKMSPolicy-" \o env.region)>>

\* new Role(this, 'SessionManagerEC2Role', {...})
SessionManagerEC2Role(env) ==
  [roleName |-> "SessionManagerEC2Role-" \o env.region,
   assumedBy |-> ServicePrincipal("ec2.amazonaws.com.cn"),
   managedPolicies |-> <<"SessionManagerEC2Policy">>]

\* sessionManagerUserPolicyDocument
UserPolicyDocument(id) ==
  <<PolicyStatement("", <<>>, <<"kms:Decrypt", "kms:GenerateDataKey">>, <<SessionCmkArn(id)>>, <<>>)>>

\* provider.node.id of CustomResourceProvider.getOrCreateProvider(this, 'Custom::SessionManagerLogging', ...)
ProviderId == "Custom::SessionManagerLogging" \o "CustomResourceProvider"
\* `${provider.node.id}LogGroup`
HandlerLogGroupId == ProviderId \o "LogGroup"
\* (provider.node.findChild('Handler') as CfnFunction).ref
HandlerRef == "${" \o ProviderId \o "/Handler.Ref}"

\* new CustomResource(this, 'Resource', {...})
CustomResource(id, props) ==
  [resourceType |-> "Custom::SsmSessionManagerSettings",
   serviceToken |-> "${" \o ProviderId \o ".ServiceToken}",
   properties |-> [s3BucketName |-> props.s3BucketName,
                   s3KeyPrefix |-> props.s3KeyPrefix,
                   s3EncryptionEnabled |-> props.sendToS3,
                   cloudWatchLogGroupName |-> sessionManagerLogGroupName(id, props),
                   cloudWatchEncryptionEnabled |-> props.cloudWatchEncryptionEnabled,
                   kmsKeyId |-> SessionCmkId(id)]]

\* the constructs declared under this, in declaration order, up to the return or the throw
SettingsResources(env, props) ==
  IF S3ValidationFails(props)
  THEN CloudWatchResources(props)
  ELSE CloudWatchResources(props) \o SessionCmkResources(props) \o IamResources(env)
         \o <<Construct("Resource", "Custom::SsmSessionManagerSettings", "")>>

\* the positions of the children of a node that carry the id
ChildPositions(children, id) == {i \in 1..Len(children) : children[i].id = id}

\* a slip: the lookup never finds the child
tryFindChild_Never(children, id) == None

\* node.tryFindChild(id): the child with that id (by its position), or undefined
tryFindChild(children, id) ==
  IF ChildPositions(children, id) = {}
  THEN None
  ELSE Some(CHOOSE i \in ChildPositions(children, id) : \A j \in ChildPositions(children, id) : i <= j)

\* the stack's children once getOrCreateProvider has run: the provider is declared once per stack
getOrCreateProvider(children) ==
  IF ChildPositions(children, ProviderId) = {}
  THEN Append(children, Construct(ProviderId, "AWS::CloudFormation::CustomResourceProvider", ""))
  ELSE children

\* new LogGroup(stack, `${provider.node.id}LogGroup`, {...})
HandlerLogGroup(props) ==
  [id |-> HandlerLogGroupId, type |-> "AWS::Logs::LogGroup", name |-> "/aws/lambda/" \o HandlerRef,
   retentionInDays |-> props.logRetentionInDays, encryptionKey |-> props.kmsKey,
   removalPolicy |-> "DESTROY"]

\* the stack's children once the log group was looked up and, when absent, created
findOrCreateLogGroup(children, props) ==
  IF IsDefined(tryFindChild(children, HandlerLogGroupId))
  THEN children
  ELSE Append(children, HandlerLogGroup(props))

\* the children of the stack after the constructor: the construct itself (declared by
\* super(scope, id)), then, when the validation passed, the provider and the log group
StackChildren(stk, id, props) ==
  IF S3ValidationFails(props)
  THEN Append(stk.children, Construct(id, "SsmSessionManagerSettings", ""))
  ELSE findOrCreateLogGroup(
         getOrCreateProvider(Append(stk.children, Construct(id, "SsmSessionManagerSettings", ""))),
         props)

\* the log group resource.node.addDependency receives: the one found, else the one just created
logGroup(stk, id, props) ==
  IF IsDefined(tryFindChild(
       getOrCreateProvider(Append(stk.children, Construct(id, "SsmSessionManagerSettings", ""))),
       HandlerLogGroupId))
  THEN Val(tryFindChild(
       getOrCreateProvider(Append(stk.children, Construct(id, "SsmSessionManagerSettings", ""))),
       HandlerLogGroupId))
  ELSE Len(StackChildren(stk, id, props))

\* the construct as the SsmSessionManagerSettings constructor leaves it
SsmSessionManagerSettings(stk, id, props) ==
  [id |-> id,
   props |-> props,
   error |-> IF S3ValidationFails(props) THEN "Bucket Key Arn and Bucket Name must be provided" ELSE "",
   resources |-> SettingsResources(stk, props),
   logsCmkPolicy |-> LogsCmkPolicy(stk, props),
   sessionCmkPolicy |-> IF S3ValidationFails(props) THEN <<>> ELSE SessionManagerKeyPolicy(stk),
   ec2PolicyDocument |-> EC2PolicyDocument(stk, id, props),
   ec2Role |-> IF S3ValidationFails(props) THEN None ELSE Some(SessionManagerEC2Role(stk)),
   userPolicyDocument |-> IF S3ValidationFails(props) THEN <<>> ELSE UserPolicyDocument(id),
   customResource |-> IF S3ValidationFails(props) THEN None ELSE Some(CustomResource(id, props)),
   dependsOn |-> IF S3ValidationFails(props) THEN None ELSE Some(logGroup(stk, id, props))]

(* inputs of the SsmSessionManagerSettings constructor *)
StackEnvs ==
  {[partition |-> "aws", region |-> "us-east-1", account |-> AccountId(1)],
   [partition |-> "aws-cn", region |-> "cn-north-1", account |-> AccountId(1)]}

SsmSessionManagerSettingsProps ==
  [s3BucketName : {None, Some(""), Some("session-logs-bucket")},
   s3KeyPrefix : {None, Some("session-logs")},
   s3BucketKeyArn : {None, Some("arn:aws-cn:kms:cn-north-1:100000000001:key/bucket-key")},
   sendToS3 : BOOLEAN,
   sendToCloudWatchLogs : BOOLEAN,
   cloudWatchEncryptionEnabled : {TRUE},
   kmsKey : {"AcceleratorKey"},
   logRetentionInDays : {365}]

\* the id the caller gives the n-th construct of the scope
SettingsId(n) == "SessionManagerSettings" \o ToString(n)

Init ==
  /\ keyStack = None
  /\ stack \in {[partition |-> e.partition, region |-> e.region, account |-> e.account,
                 children |-> <<>>] : e \in StackEnvs}
  /\ settings = <<>>
  /\ error = ""

\* new SsmSessionManagerSettings(scope, id, props), scope being the stack; an error
\* thrown by an earlier constructor has ended the run
SsmSessionManagerSettingsConstructor ==
  /\ error = ""
  /\ Len(settings) < MaxBuilds
  /\ \E props \in SsmSessionManagerSettingsProps :
       /\ settings' = Append(settings, SsmSessionManagerSettings(stack, SettingsId(Len(settings) + 1), props))
       /\ stack' = [stack EXCEPT !.children = StackChildren(stack, SettingsId(Len(settings) + 1), props)]
       /\ error' = IF S3ValidationFails(props) THEN "Bucket Key Arn and Bucket Name must be provided" ELSE ""
  /\ UNCHANGED keyStack

Next == SsmSessionManagerSettingsConstructor

Spec == Init /\ [][Next]_vars

\* new KeyStack(scope, id, props): the stack is left as built, up to the throw when the
\* constructor throws
KeyStackConstructor ==
  /\ keyStack = None
  /\ \E props \in KeyStackProps :
       /\ keyStack' = Some(KeyStack(props))
       /\ error' = KeyStackError(props)
  /\ UNCHANGED <<stack, settings>>

NextKey == KeyStackConstructor

SpecKey == Init /\ [][NextKey]_vars

----------------------------------------------------------------------------
(* Properties of the KeyStack constructor, checked under SpecKey *)

KeyStackBuilt == keyStack # None
\* the stack the constructor built
KS == Val(keyStack)

\* a statement that allows both encrypting and decrypting with the key
GrantsEncryptDecrypt(s) ==
  /\ s.effect = "Allow"
  /\ \/ {"kms:Encrypt", "kms:Decrypt"} \subseteq Range(s.actions)
     \/ {"kms:Encrypt*", "kms:Decrypt*"} \subseteq Range(s.actions)

\* the statements of the key policy that grant encrypt/decrypt to exactly one service principal
ServiceGrants(service) ==
  {i \in 1..Len(KS.keyPolicy) :
     /\ KS.keyPolicy[i].principals = <<ServicePrincipal(service)>>
     /\ GrantsEncryptDecrypt(KS.keyPolicy[i])}

\* the statements of the key policy conditioned on an accelerator-prefixed role ARN
AcceleratorRoleGrants ==
  {i \in 1..Len(KS.keyPolicy) :
     /\ GrantsEncryptDecrypt(KS.keyPolicy[i])
     /\ KS.keyPolicy[i].conditions =
          <<Condition("ArnLike", "aws:PrincipalARN",
                      <<"arn:" \o KS.props.partition \o ":iam::*:role/AWSAccelerator-*">>)>>}

\* a principal that is or contains the organization principal
NamesOrganization(p) ==
  \/ p.kind = "Organization"
  \/ p.kind = "Composite" /\ \E q \in Range(p.principals) : q.kind = "Organization"

\* C2: with organization mode disabled, whatever the region, home region, partition and
\* account list, no cross-account role is declared and no statement of the key policy
\* (and so no trust relationship) names the organization principal.
C2_NoOrganizationAccessWhenDisabled ==
  (KeyStackBuilt /\ ~KS.props.organizationEnable) =>
     /\ KS.role = None
     /\ "CrossAccountAcceleratorSsmParamAccessRole" \notin Range(KS.children)
     /\ \A s \in Range(KS.keyPolicy) : \A p \in Range(s.principals) : ~NamesOrganization(p)

C2_Witness ==
  /\ KeyStackBuilt
  /\ ~KS.props.organizationEnable
  /\ KS.props.region = KS.props.homeRegion
  /\ KS.props.partition = "aws-cn"
  /\ IsDefined(KS.props.accountIds) /\ Len(Val(KS.props.accountIds)) = 2
  /\ Len(KS.keyPolicy) >= 4

\* C6: when the cross-account role is declared, its trust principal is the composite of
\* the account principals of the configured list, in order and without the organization
\* principal, if the partition is "aws-cn" and the list is present; it is the
\* organization principal of the organization's id in every other case.
C6_TrustPrincipalByPartition ==
  (KeyStackBuilt /\ KS.role # None) =>
     IF KS.props.partition = "aws-cn" /\ KS.props.accountIds # None
     THEN /\ Val(KS.role).assumedBy.kind = "Composite"
          /\ Len(Val(KS.role).assumedBy.principals) = Len(Val(KS.props.accountIds))
          /\ \A i \in 1..Len(Val(KS.props.accountIds)) :
               Val(KS.role).assumedBy.principals[i] =
                 [kind |-> "Account", accountId |-> Val(KS.props.accountIds)[i]]
          /\ ~NamesOrganization(Val(KS.role).assumedBy)
     ELSE Val(KS.role).assumedBy = [kind |-> "Organization", organizationId |-> "${Organization.id}"]

C6_Witness ==
  /\ KeyStackBuilt
  /\ KS.role # None
  /\ KS.props.partition = "aws-cn"
  /\ KS.props.accountIds = Some(<<AccountId(1), AccountId(2)>>)
  /\ Val(KS.role).assumedBy.principals =
       <<[kind |-> "Account", accountId |-> AccountId(1)], [kind |-> "Account", accountId |-> AccountId(2)]>>

\* C7: the key policy grants encrypt/decrypt to the logging service principal and to the
\* SNS, Lambda and CloudWatch principals in every configuration, to the Macie principal
\* iff macie.enable and to the GuardDuty principal iff guardduty.enable, holds the
\* accelerator-role statement iff organization mode is enabled, and holds nothing
\* else: each flag adds or removes its own statement only.
C7_KeyPolicyGrants ==
  KeyStackBuilt =>
     /\ \A svc \in {"logs.amazonaws.com.cn", "sns.amazonaws.com", "lambda.amazonaws.com",
                    "cloudwatch.amazonaws.com"} : Cardinality(ServiceGrants(svc)) = 1
     /\ Cardinality(ServiceGrants("macie.amazonaws.com")) = (IF KS.props.macieEnable THEN 1 ELSE 0)
     /\ Cardinality(ServiceGrants("guardduty.amazonaws.com")) = (IF KS.props.guarddutyEnable THEN 1 ELSE 0)
     /\ Cardinality(AcceleratorRoleGrants) = (IF KS.props.organizationEnable THEN 1 ELSE 0)
     /\ Len(KS.keyPolicy) = 4 + (IF KS.props.macieEnable THEN 1 ELSE 0)
                              + (IF KS.props.guarddutyEnable THEN 1 ELSE 0)
                              + (IF KS.props.organizationEnable THEN 1 ELSE 0)

C7_Witness ==
  /\ KeyStackBuilt
  /\ KS.props.macieEnable /\ ~KS.props.guarddutyEnable /\ KS.props.organizationEnable
  /\ Len(KS.keyPolicy) = 6
  /\ ServiceGrants("macie.amazonaws.com") # {}

\* C8: the cross-account role is declared iff the region is the home region and
\* organization mode is enabled; when declared it has the fixed role name, every
\* statement of its inline policy carries the ArnLike condition on accelerator-prefixed
\* role ARNs, and its parameter-read statement names the parameter at the path under
\* which the key ARN is published, which is /accelerator/kms/key-arn in every configuration.
C8_CrossAccountRole ==
  KeyStackBuilt =>
     /\ KS.parameter.parameterName = "/accelerator/kms/key-arn"
     /\ KS.parameter.parameterName = ACCELERATOR_KEY_ARN_PARAMETER_NAME
     /\ KS.parameter.stringValue = "${AcceleratorKey.Arn}"
     /\ (KS.role # None) <=> (KS.props.region = KS.props.homeRegion /\ KS.props.organizationEnable)
     /\ (KS.role # None) <=> ("CrossAccountAcceleratorSsmParamAccessRole" \in Range(KS.children))
     /\ (KS.role # None) =>
          /\ Val(KS.role).roleName = "AWSAccelerator-CrossAccount-SsmParameter-Role"
          /\ Val(KS.role).inlinePolicies # <<>>
          /\ \A s \in Range(Val(KS.role).inlinePolicies) :
               /\ s.effect = "Allow"
               /\ s.conditions =
                    <<Condition("ArnLike", "aws:PrincipalARN",
                                <<"arn:" \o KS.props.partition \o ":iam::*:role/AWSAccelerator-*">>)>>
          /\ \E s \in Range(Val(KS.role).inlinePolicies) :
               /\ "ssm:GetParameter" \in Range(s.actions)
               /\ s.resources = <<"arn:" \o KS.props.partition \o ":ssm:*:" \o KS.props.account
                                    \o ":parameter" \o KS.parameter.parameterName>>

----------------------------------------------------------------------------
(* Properties of the SsmSessionManagerSettings constructor, checked under Spec *)

Builds == 1..Len(settings)
Succeeded(b) == settings[b].error = ""
\* the constructs of the given id declared under the b-th construct
Declared(b, id) == {i \in 1..Len(settings[b].resources) : settings[b].resources[i].id = id}
\* the S3 destination is requested without a bucket name or without a bucket key ARN
\* (undefined or empty)
S3Incomplete(p) ==
  /\ p.sendToS3
  /\ \/ p.s3BucketName = None \/ p.s3BucketName = Some("")
     \/ p.s3BucketKeyArn = None \/ p.s3BucketKeyArn = Some("")

\* C1 as stated: when the S3 destination is requested without its bucket name or key ARN,
\* assembly fails with the validation error and no resource has been declared at that
\* point, for both values of sendToCloudWatchLogs.
C1_FailsBeforeAnyResource ==
  \A b \in Builds :
     S3Incomplete(settings[b].props) =>
        /\ settings[b].error = "Bucket Key Arn and Bucket Name must be provided"
        /\ settings[b].resources = <<>>

\* C1 amended: assembly fails with the validation error before the session key, the
\* policies, the role, the instance profile, the custom resource, the provider and the
\* handler log group are declared; the resources declared at that point are none when
\* sendToCloudWatchLogs is false, and exactly the CloudWatch logs key and the
\* session-manager log group when it is true.
C1_FailsBeforeSessionResources ==
  \A b \in Builds :
     S3Incomplete(settings[b].props) =>
        /\ settings[b].error = "Bucket Key Arn and Bucket Name must be provided"
        /\ error = settings[b].error
        /\ b = Len(settings)
        /\ [i \in 1..Len(settings[b].resources) |-> settings[b].resources[i].id] =
             (IF settings[b].props.sendToCloudWatchLogs
              THEN <<"SessionManagerLogsCmk", "sessionManagerLogGroup">>
              ELSE <<>>)
        /\ settings[b].customResource = None
        /\ settings[b].ec2Role = None
        /\ settings[b].dependsOn = None
        /\ Len(stack.children) > 0
        /\ stack.children[Len(stack.children)].id = settings[b].id

C1_Witness ==
  \E b \in Builds :
     /\ settings[b].props.sendToS3
     /\ settings[b].props.sendToCloudWatchLogs
     /\ settings[b].props.s3BucketName = None
     /\ settings[b].error # ""
     /\ Len(settings[b].resources) = 2

\* C3 as stated: in every configuration, complete or not, one assembly run creates the
\* session-data key exactly once.
C3_SessionKeyAlwaysOnce ==
  \A b \in Builds : Cardinality(Declared(b, "SessionManagerSessionCmk")) = 1

\* C3 amended: assembly succeeds iff the S3 destination is not requested without its
\* bucket name or key ARN; every run that succeeds creates the session-data key exactly
\* once, whatever the destination flags, and a run that fails with the validation error
\* creates none.
C3_SessionKeyOncePerSuccessfulRun ==
  \A b \in Builds :
     /\ Succeeded(b) <=> ~S3Incomplete(settings[b].props)
     /\ Cardinality(Declared(b, "SessionManagerSessionCmk")) = (IF Succeeded(b) THEN 1 ELSE 0)
     /\ Succeeded(b) => settings[b].customResource # None
                        /\ Val(settings[b].customResource).properties.kmsKeyId
                             = "${" \o settings[b].id \o "/SessionManagerSessionCmk.Ref}"

C3_Witness ==
  /\ Len(settings) = 2
  /\ Succeeded(1) /\ Succeeded(2)
  /\ ~settings[1].props.sendToS3 /\ ~settings[1].props.sendToCloudWatchLogs
  /\ settings[2].props.sendToS3 /\ settings[2].props.sendToCloudWatchLogs
  /\ Declared(1, "SessionManagerSessionCmk") # {} /\ Declared(2, "SessionManagerSessionCmk") # {}

\* the handler log group declarations the stack holds
HandlerLogGroups ==
  {i \in 1..Len(stack.children) :
     stack.children[i].id = "Custom::SessionManagerLoggingCustomResourceProviderLogGroup"}

\* C4: however many constructs are built in one stack, the stack holds at most one
\* declaration of the handler log group, under the id derived from the provider's id;
\* it is declared by the first build that reaches the lookup (right after that build's
\* provider), and every build depends on that one declaration.
C4_SingleHandlerLogGroup ==
  /\ Cardinality(HandlerLogGroups) <= 1
  /\ (HandlerLogGroups # {}) <=> (\E b \in Builds : Succeeded(b))
  /\ \A b \in Builds :
       Succeeded(b) => /\ settings[b].dependsOn # None
                       /\ HandlerLogGroups = {Val(settings[b].dependsOn)}
  /\ \A i \in HandlerLogGroups :
       /\ i = 3
       /\ stack.children[1].id = settings[1].id
       /\ stack.children[2].id = "Custom::SessionManagerLoggingCustomResourceProvider"
       /\ stack.children[i].name = "/aws/lambda/${Custom::SessionManagerLoggingCustomResourceProvider/Handler.Ref}"

C4_Witness ==
  /\ Len(settings) >= 2
  /\ Succeeded(1) /\ Succeeded(2)
  /\ settings[1].dependsOn = settings[2].dependsOn
  /\ Cardinality(HandlerLogGroups) = 1

\* a statement of the S3 destination block, by its actions
IsS3Statement(s) ==
  s.actions \in {<<"s3:PutObject", "s3:PutObjectAcl">>, <<"s3:GetEncryptionConfiguration">>,
                 <<"kms:Decrypt", "kms:GenerateDataKey">>}
\* a statement of the CloudWatch destination block, by its actions
IsCloudWatchStatement(s) ==
  Range(s.actions) \cap {"logs:DescribeLogGroups", "logs:CreateLogGroup", "logs:CreateLogStream",
                         "logs:PutLogEvents", "logs:DescribeLogStreams"} # {}
S3Block(b) == SelectSeq(settings[b].ec2PolicyDocument, IsS3Statement)
CloudWatchBlock(b) == SelectSeq(settings[b].ec2PolicyDocument, IsCloudWatchStatement)
Destinations(b) ==
  (IF settings[b].props.sendToS3 THEN 1 ELSE 0) + (IF settings[b].props.sendToCloudWatchLogs THEN 1 ELSE 0)
SameS3Inputs(a, b) ==
  /\ settings[a].props.s3BucketName = settings[b].props.s3BucketName
  /\ settings[a].props.s3KeyPrefix = settings[b].props.s3KeyPrefix
  /\ settings[a].props.s3BucketKeyArn = settings[b].props.s3BucketKeyArn

\* C5: for every successful assembly the agent policy document is the base statement,
\* the session-key statement and one block per enabled destination, so its length is
\* strictly larger with more destinations enabled, and the block of one destination is
\* the same whether or not the other destination is enabled.
C5_StatementCountMonotone ==
  /\ \A b \in Builds :
       Succeeded(b) =>
          /\ Len(settings[b].ec2PolicyDocument) = 1 + 1 + Len(S3Block(b)) + Len(CloudWatchBlock(b))
          /\ settings[b].ec2PolicyDocument[1].actions[1] = "ssmmessages:CreateControlChannel"
          /\ settings[b].ec2PolicyDocument[Len(settings[b].ec2PolicyDocument)].actions = <<"kms:Decrypt">>
          /\ (S3Block(b) # <<>>) <=> settings[b].props.sendToS3
          /\ (CloudWatchBlock(b) # <<>>) <=> settings[b].props.sendToCloudWatchLogs
  /\ \A a \in Builds : \A b \in Builds :
       (Succeeded(a) /\ Succeeded(b)) =>
          /\ Destinations(a) < Destinations(b)
               => Len(settings[a].ec2PolicyDocument) < Len(settings[b].ec2PolicyDocument)
          /\ (settings[a].props.sendToCloudWatchLogs /\ settings[b].props.sendToCloudWatchLogs)
               => CloudWatchBlock(a) = CloudWatchBlock(b)
          /\ (settings[a].props.sendToS3 /\ settings[b].props.sendToS3)
               => /\ Len(S3Block(a)) = Len(S3Block(b))
                  /\ SameS3Inputs(a, b) => S3Block(a) = S3Block(b)

C5_Witness ==
  /\ Len(settings) = 2
  /\ Succeeded(1) /\ Succeeded(2)
  /\ settings[1].props.sendToS3 /\ ~settings[1].props.sendToCloudWatchLogs
  /\ settings[2].props.sendToS3 /\ settings[2].props.sendToCloudWatchLogs
  /\ SameS3Inputs(1, 2)
  /\ Len(settings[1].ec2PolicyDocument) < Len(settings[2].ec2PolicyDocument)

\* the session-manager log groups declared under the b-th construct
SessionLogGroups(b) ==
  {i \in 1..Len(settings[b].resources) : settings[b].resources[i].type = "AWS::Logs::LogGroup"}
\* the ARN of a log group of the stack's account and region, by name
LogGroupArn(name) ==
  "arn:" \o stack.partition \o ":logs:" \o stack.region \o ":" \o stack.account \o ":log-group:" \o name

\* C9 as stated: with the CloudWatch destination enabled, every statement added for it
\* names only the dedicated log group created in the same run (the group or what is
\* under it), and none names a resource covering other log groups; with it disabled, no
\* log-group statement, no logs key and no log group is declared by the construct.
C9_AllLogStatementsScopedToLogGroup ==
  \A b \in Builds :
     IF settings[b].props.sendToCloudWatchLogs
     THEN /\ Cardinality(SessionLogGroups(b)) = 1
          /\ CloudWatchBlock(b) # <<>>
          /\ \A s \in Range(CloudWatchBlock(b)) : \A i \in SessionLogGroups(b) :
               Range(s.resources) \subseteq {LogGroupArn(settings[b].resources[i].name),
                                              LogGroupArn(settings[b].resources[i].name) \o ":*"}
     ELSE /\ CloudWatchBlock(b) = <<>>
          /\ SessionLogGroups(b) = {}
          /\ Declared(b, "SessionManagerLogsCmk") = {}

\* C9 amended: with the CloudWatch destination enabled, the log-stream creation and
\* log-event write statement names only the streams of the dedicated log group created
\* in the same run, which is encrypted with the dedicated logs key, and the log-group
\* description statement names every log group of the stack's account and region
\* (log-group:*); with it disabled, the construct declares no log-group statement, no
\* logs key and no session-manager log group.
C9_WriteScopedDescribeAccountWide ==
  \A b \in Builds :
     IF settings[b].props.sendToCloudWatchLogs
     THEN /\ Cardinality(SessionLogGroups(b)) = 1
          /\ Cardinality(Declared(b, "SessionManagerLogsCmk")) = 1
          /\ Len(settings[b].logsCmkPolicy) = 2
          /\ \A i \in SessionLogGroups(b) :
               /\ settings[b].resources[i].encryptionKey = "SessionManagerLogsCmk"
               /\ \A s \in Range(CloudWatchBlock(b)) :
                    IF s.actions = <<"logs:DescribeLogGroups">>
                    THEN s.resources = <<LogGroupArn("*")>>
                    ELSE /\ {"logs:CreateLogStream", "logs:PutLogEvents"} \subseteq Range(s.actions)
                         /\ s.resources = <<LogGroupArn(settings[b].resources[i].name) \o ":*">>
          /\ \E s \in Range(CloudWatchBlock(b)) : s.actions = <<"logs:DescribeLogGroups">>
          /\ \E s \in Range(CloudWatchBlock(b)) : "logs:PutLogEvents" \in Range(s.actions)
          /\ Succeeded(b) =>
               Val(settings[b].customResource).properties.cloudWatchLogGroupName
                 = "${" \o settings[b].id \o "/sessionManagerLogGroup.Ref}"
     ELSE /\ CloudWatchBlock(b) = <<>>
          /\ SessionLogGroups(b) = {}
          /\ Declared(b, "SessionManagerLogsCmk") = {}
          /\ settings[b].logsCmkPolicy = <<>>
          /\ Succeeded(b) => Val(settings[b].customResource).properties.cloudWatchLogGroupName = ""

C9_Witness ==
  \E b \in Builds :
     /\ Succeeded(b)
     /\ settings[b].props.sendToCloudWatchLogs /\ settings[b].props.sendToS3
     /\ Len(CloudWatchBlock(b)) = 2

====
